---- MODULE Spec2Model ----
(***************************************************************************)
(* Model of node-ranking: two refresh loops (gossip membership, stake)    *)
(* publishing into tokio watch cells, and the HTTP handlers that join the  *)
(* two latest snapshots into allowlists.                                   *)
(***************************************************************************)
EXTENDS Integers, Sequences, FiniteSets, TLC

(***************************************************************************)
(* Generic helpers: Option<T> is <<>> (None) or <<x>> (Some(x)).           *)
(***************************************************************************)
None == <<>>

Some(x) == <<x>>

Range(s) == {s[i] : i \in DOMAIN s}

\* All sequences over S of length at most n.
SeqsUpTo(S, n) == UNION {[1..k -> S] : k \in 0..n}

\* All orders in which the elements of a finite set can be iterated.
Orders(S) == {o \in [1..Cardinality(S) -> S] : Range(o) = S}

(***************************************************************************)
(* Addresses.  IpAddr is V4 with four octets or V6; Ipv4Addr is the tuple  *)
(* of its four octets.                                                     *)
(***************************************************************************)
V4(a, b, c, d) == [kind |-> "V4", octets |-> <<a, b, c, d>>]

V6(n) == [kind |-> "V6", octets |-> <<n>>]

SocketAddr(ip, port) == [ip |-> ip, port |-> port]

\* u32 value of an Ipv4Addr (big-endian octets).
ToU32(o) == ((o[1] * 256 + o[2]) * 256 + o[3]) * 256 + o[4]

\* Ord for Ipv4Addr: lexicographic comparison of the octet arrays.
Ipv4Less(x, y) ==
    \E i \in 1..4 : /\ x[i] < y[i]
                    /\ \A j \in 1..(i - 1) : x[j] = y[j]

\* Iteration of a BTreeSet<Ipv4Addr>: ascending by Ord.
RECURSIVE BTreeSetIter(_)
BTreeSetIter(S) ==
    IF S = {} THEN <<>>
    ELSE LET m == CHOOSE x \in S : \A y \in S \ {x} : Ipv4Less(x, y)
         IN  <<m>> \o BTreeSetIter(S \ {m})

\* Ipv4Addr::new(octets[0], octets[1], octets[2], 0)
Net24(ip) == <<ip[1], ip[2], ip[3], 0>>

\* Mutant of aggregate_into_24s: the networks are kept in a Vec in the order
\* met, only adjacent repetitions being dropped, instead of in a BTreeSet.
RECURSIVE aggregate_into_24s_vec(_)
aggregate_into_24s_vec(addrs) ==
    IF addrs = <<>> THEN <<>>
    ELSE LET rest == aggregate_into_24s_vec(Tail(addrs))
         IN  IF rest /= <<>> /\ Head(rest) = Net24(Head(addrs))
             THEN rest
             ELSE <<Net24(Head(addrs))>> \o rest

\* Mutant of aggregate_into_24s: addrs.clear() is left out, the networks
\* are appended to what the vector held.
aggregate_into_24s_no_clear(addrs) ==
    LET nets == {Net24(addrs[i]) : i \in DOMAIN addrs}
    IN  addrs \o BTreeSetIter(nets)

\* aggregate_into_24s: the new content of the vector.
aggregate_into_24s(addrs) ==
    LET nets == {Net24(addrs[i]) : i \in DOMAIN addrs}
    IN  BTreeSetIter(nets)

(***************************************************************************)
(* gossip_spy.rs: Ports, all_ips, TryFrom<ContactInfo>.                    *)
(* A ContactInfo is a record with the pubkey and, per accessor the code    *)
(* calls, the Option<SocketAddr> that accessor returns.                    *)
(***************************************************************************)
ContactInfo(pk, gossip, repair, fwd_quic, tpu_quic, vote, vote_quic, tvu, alpenglow) ==
    [pubkey |-> pk, gossip |-> gossip, serve_repair_udp |-> repair,
     tpu_forwards_quic |-> fwd_quic, tpu_quic |-> tpu_quic,
     tpu_vote_udp |-> vote, tpu_vote_quic |-> vote_quic,
     tvu_udp |-> tvu, alpenglow |-> alpenglow]

\* Ports::try_from(value): <<>> is Err, <<p>> is Ok(p).  The three `?` return
\* the error when the required endpoint is absent.
TryFromContactInfo(value) ==
    IF value.gossip = None THEN <<>>
    ELSE IF value.serve_repair_udp = None THEN <<>>
    ELSE IF value.tvu_udp = None THEN <<>>
    ELSE <<[pubkey            |-> value.pubkey,
            stake             |-> 0,
            gossip            |-> value.gossip[1],
            serve_repair      |-> value.serve_repair_udp[1],
            tpu_forwards_quic |-> value.tpu_forwards_quic,
            tpu_quic          |-> value.tpu_quic,
            tpu_vote          |-> value.tpu_vote_udp,
            tpu_vote_quic     |-> value.tpu_vote_quic,
            turbine           |-> value.tvu_udp[1],
            alpenglow         |-> value.alpenglow]>>

\* `if let Some(addr) = field { ips.push(addr.ip()) }`
PushIp(field) == IF field = None THEN <<>> ELSE <<field[1].ip>>

\* The closing filter_map: keeps the V4 addresses, in order.
RECURSIVE FilterV4(_)
FilterV4(ips) ==
    IF ips = <<>> THEN <<>>
    ELSE IF Head(ips).kind = "V4"
         THEN <<Head(ips).octets>> \o FilterV4(Tail(ips))
         ELSE FilterV4(Tail(ips))

\* Mutant of all_ips: the closing IPv4 filter is missing.
all_ips_unfiltered(self) ==
    LET ips == <<self.gossip.ip, self.serve_repair.ip, self.turbine.ip>>
               \o PushIp(self.tpu_forwards_quic)
               \o PushIp(self.tpu_quic)
               \o PushIp(self.tpu_vote)
               \o PushIp(self.tpu_vote_quic)
               \o PushIp(self.alpenglow)
    IN  [i \in DOMAIN ips |-> ips[i].octets]

\* Ports::all_ips
all_ips(self) ==
    LET ips == <<self.gossip.ip, self.serve_repair.ip, self.turbine.ip>>
               \o PushIp(self.tpu_forwards_quic)
               \o PushIp(self.tpu_quic)
               \o PushIp(self.tpu_vote)
               \o PushIp(self.tpu_vote_quic)
               \o PushIp(self.alpenglow)
    IN  FilterV4(ips)

(***************************************************************************)
(* http_endpoint.rs: Descriptor and AllowlistEntry.                        *)
(***************************************************************************)
quic(address) ==
    [protocol |-> "QUIC", address |-> address, max_mbps |-> 100, staked_only |-> FALSE]

udp_gossip(address) ==
    [protocol |-> "UDP", address |-> address, max_mbps |-> 50, staked_only |-> FALSE]

udp_control(address) ==
    [protocol |-> "UDP", address |-> address, max_mbps |-> 10, staked_only |-> TRUE]

udp_bulk(address) ==
    [protocol |-> "UDP", address |-> address, max_mbps |-> 200, staked_only |-> TRUE]

\* Option::map(Descriptor::quic) and Option::map(Descriptor::udp_control)
map_quic(o) == IF o = None THEN None ELSE Some(quic(o[1]))

map_udp_control(o) == IF o = None THEN None ELSE Some(udp_control(o[1]))

\* Mutant of AllowlistEntry::new: tpu_vote is classified as a QUIC endpoint.
AllowlistEntry_new_vote_quic(ports, stake) ==
    [pubkey            |-> ports.pubkey,
     stake             |-> stake,
     gossip            |-> udp_gossip(ports.gossip),
     serve_repair      |-> udp_bulk(ports.serve_repair),
     tpu_forwards_quic |-> map_quic(ports.tpu_forwards_quic),
     tpu_quic          |-> map_quic(ports.tpu_quic),
     tpu_vote          |-> map_quic(ports.tpu_vote),
     tpu_vote_quic     |-> map_quic(ports.tpu_vote_quic),
     turbine           |-> udp_bulk(ports.turbine),
     alpenglow         |-> map_udp_control(ports.alpenglow)]

\* AllowlistEntry::new(ports, stake)
AllowlistEntry_new(ports, stake) ==
    [pubkey            |-> ports.pubkey,
     stake             |-> stake,
     gossip            |-> udp_gossip(ports.gossip),
     serve_repair      |-> udp_bulk(ports.serve_repair),
     tpu_forwards_quic |-> map_quic(ports.tpu_forwards_quic),
     tpu_quic          |-> map_quic(ports.tpu_quic),
     tpu_vote          |-> map_udp_control(ports.tpu_vote),
     tpu_vote_quic     |-> map_quic(ports.tpu_vote_quic),
     turbine           |-> udp_bulk(ports.turbine),
     alpenglow         |-> map_udp_control(ports.alpenglow)]

(***************************************************************************)
(* HashMap<K, V> is a function whose domain is the set of keys.            *)
(***************************************************************************)
EmptyMap == <<>>

\* Mutant of MapInsert: a key already present keeps its value.
MapInsert_keep_first(m, k, v) ==
    [x \in (DOMAIN m) \cup {k} |-> IF x \in DOMAIN m THEN m[x] ELSE v]

\* HashMap::insert, as FromIterator uses it: the value given replaces the one
\* the key had.
MapInsert(m, k, v) == [x \in (DOMAIN m) \cup {k} |-> IF x = k THEN v ELSE m[x]]

\* stakes.stake_amounts.get(identity).copied().unwrap_or_default()
GetOrDefault(m, k) == IF k \in DOMAIN m THEN m[k] ELSE 0

\* Mutant of CollectPeers: the first record that fails to convert ends the
\* collection (the error is propagated instead of filtered out).
RECURSIVE CollectPeers_stop_at_invalid(_, _)
CollectPeers_stop_at_invalid(peers, acc) ==
    IF peers = <<>> THEN acc
    ELSE LET r == TryFromContactInfo(Head(peers))
         IN  IF r = <<>> THEN acc
             ELSE CollectPeers_stop_at_invalid(Tail(peers),
                                               MapInsert(acc, r[1].pubkey, r[1]))

\* watch_gossip's iterator chain over all_peers(): filter_map(try_from .ok()),
\* map to (pubkey, ports), collect into a HashMap (a later pair overwrites).
RECURSIVE CollectPeers(_, _)
CollectPeers(peers, acc) ==
    IF peers = <<>> THEN acc
    ELSE LET r == TryFromContactInfo(Head(peers))
         IN  IF r = <<>> THEN CollectPeers(Tail(peers), acc)
             ELSE CollectPeers(Tail(peers), MapInsert(acc, r[1].pubkey, r[1]))

\* fetch_validator_ips's loop over vote_resp.result.current:
\* entry(node_pubkey).or_default().add_assign(activated_stake)
RECURSIVE SumStakes(_, _)
SumStakes(accounts, acc) ==
    IF accounts = <<>> THEN acc
    ELSE LET a == Head(accounts)
         IN  SumStakes(Tail(accounts),
                       MapInsert(acc, a.node_pubkey,
                                 GetOrDefault(acc, a.node_pubkey) + a.activated_stake))

\* The stake map fetch_validator_ips builds from a parsed response.
StakeAmounts(vote_resp) == SumStakes(vote_resp.current, EmptyMap)

(***************************************************************************)
(* ranking_table.rs: the values held by the two watch cells.               *)
(***************************************************************************)
GossipData(gossip_data, last_update) ==
    [gossip_data |-> gossip_data, last_update |-> last_update]

StakeData(stake_amounts, last_update) ==
    [stake_amounts |-> stake_amounts, last_update |-> last_update]

\* Mutant of GossipDataDefault: the default is stamped as already stale, one
\* health window before the instant of its creation.
GossipDataDefault_stale(t) == GossipData(EmptyMap, t - 10)

\* GossipData::default() / StakeData::default() evaluated at instant t.
GossipDataDefault(t) == GossipData(EmptyMap, t)

StakeDataDefault(t) == StakeData(EmptyMap, t)

(***************************************************************************)
(* Program constants.                                                      *)
(***************************************************************************)
LAMPORTS_PER_SOL == 1000000000

\* Duration::from_secs(10) in get_health
HealthMaxAgeSecs == 10

\* tokio::time::sleep(Duration::from_secs(10)) in watch_gossip
GossipSleepSecs == 10

\* Duration::from_secs(60), the interval main passes to stakes_refresh_loop
StakesIntervalSecs == 60

(***************************************************************************)
(* State.                                                                  *)
(*   now                 the monotonic clock (Instant::now()), in seconds  *)
(*   gossip_data_watch   value of the watch cell of GossipData             *)
(*   stakes_watch        value of the watch cell of StakeData              *)
(*   gossip_task         watch_gossip: pc, the listing all_peers() gave    *)
(*                       (until the value built from it is sent), the      *)
(*                       value built, the sleep's deadline, what the       *)
(*                       function returned                                 *)
(*   stakes_task         stakes_refresh_loop: likewise, with the response  *)
(*                       fetch_validator_ips parsed                        *)
(*   handler             the HTTP handler in flight and its locals         *)
(*   response            the last HTTP response                            *)
(*   cancel              the CancellationToken of main: is it cancelled    *)
(*   main_task           main: where it stands (the select!, cancel(),     *)
(*                       exit) and the arm of the select! that completed   *)
(*   app_state           the AppState (the two Receivers) run_http holds   *)
(***************************************************************************)
VARIABLES now, gossip_data_watch, stakes_watch, gossip_task, stakes_task,
          handler, response, cancel, main_task, app_state

(***************************************************************************)
(* State of the specifications that exercise one function on its own.      *)
(*   addrs, addrs_in   the vector aggregate_into_24s rewrites, as it is    *)
(*                     and as it was given; agg_calls counts the calls     *)
(*   contact           a ContactInfo listed by the gossip node             *)
(*   try_from          Ports::try_from(contact), once evaluated            *)
(*   ips_out           all_ips() of the Ports obtained                     *)
(*   new_entry         AllowlistEntry::new of the Ports obtained           *)
(***************************************************************************)
VARIABLES addrs, addrs_in, agg_calls, contact, try_from, ips_out, new_entry

fn_vars == <<addrs, addrs_in, agg_calls, contact, try_from, ips_out, new_entry>>

\* What main and its callers own: the token, main's position, the AppState.
sup_vars == <<cancel, main_task, app_state>>

vars == <<now, gossip_data_watch, stakes_watch, gossip_task, stakes_task,
          handler, response, cancel, main_task, app_state,
          addrs, addrs_in, agg_calls, contact, try_from, ips_out, new_entry>>

sys_vars == <<now, gossip_data_watch, stakes_watch, gossip_task, stakes_task,
              handler, response, cancel, main_task, app_state>>

\* Everything but the variables an action of the running system writes.
rest_vars == <<fn_vars, sup_vars>>

NoValue == <<>>

NoResponse == [status |-> 0, body |-> <<>>]

IdleHandler == [pc |-> "idle", route |-> "none", params |-> None,
                stake_threshold_lamports |-> 0,
                gossip |-> NoValue, stakes |-> NoValue,
                gossip_age |-> 0, stake_age |-> 0]

\* main: both cells are created with the Default value; watch_gossip is
\* spawned and stakes_refresh_loop starts its first fetch.
InitSys ==
    /\ now = 0
    /\ gossip_data_watch = GossipDataDefault(0)
    /\ stakes_watch = StakeDataDefault(0)
    /\ gossip_task = [pc |-> "run", peers |-> NoValue, value |-> NoValue,
                      wake |-> 0, result |-> "none"]
    /\ stakes_task = [pc |-> "fetch", vote_resp |-> NoValue, value |-> NoValue,
                      wake |-> 0, result |-> "none"]
    /\ handler = IdleHandler
    /\ response = NoResponse
    /\ cancel = FALSE
    /\ main_task = [pc |-> "select", arm |-> "none"]
    /\ app_state = "held"

\* Time passes: the clock moves to a later instant.
Tick(t) ==
    /\ t > now
    /\ now' = t
    /\ UNCHANGED <<gossip_data_watch, stakes_watch, gossip_task, stakes_task,
                   handler, response>>

\* A Ref returned by borrow() holds the cell's read lock until it is dropped;
\* send() takes the write lock.
GossipBorrowed == handler.pc \in {"gossip_borrowed", "both_borrowed"}

StakesBorrowed == handler.pc = "both_borrowed"

\* A channel is open while a Receiver of it is alive: the AppState run_http
\* holds, or the clone of it a handler in flight was given.
ReceiversAlive == app_state = "held" \/ handler.pc /= "idle"

(***************************************************************************)
(* watch_gossip (gossip_spy.rs).  pc = "run" is the loop's condition,      *)
(* `while !cancel.is_cancelled()`.                                         *)
(***************************************************************************)
\* Mutant of WatchGossipBuildValue: the peers are inserted into the map
\* published before instead of into a new one.
WatchGossipBuildValue_merge(peers, t) ==
    GossipData(CollectPeers(peers, gossip_data_watch.gossip_data), t)

\* One pass of the loop body up to the send: list the peers, collect the
\* map, build GossipData { gossip_data, ..Default::default() }.
WatchGossipBuildValue(peers, t) == GossipData(CollectPeers(peers, EmptyMap), t)

\* The condition holds (the token is not cancelled) and the body runs up to
\* the send.
WatchGossipBuild(peers) ==
    /\ gossip_task.pc = "run"
    /\ ~cancel
    /\ gossip_task' = [gossip_task EXCEPT !.pc = "send",
                                          !.peers = peers,
                                          !.value = WatchGossipBuildValue(peers, now)]
    /\ UNCHANGED <<now, gossip_data_watch, stakes_watch, stakes_task, handler, response>>

\* The condition fails: the loop is left and watch_gossip returns Ok(()).
WatchGossipCancelled ==
    /\ gossip_task.pc = "run"
    /\ cancel
    /\ gossip_task' = [gossip_task EXCEPT !.pc = "done", !.result = "Ok"]
    /\ UNCHANGED <<now, gossip_data_watch, stakes_watch, stakes_task, handler, response>>

\* Mutant of WatchSend: the new value is installed under the old timestamp.
WatchSend_torn(cell, value) == [value EXCEPT !.last_update = cell.last_update]

\* watch::Sender::send: replaces the cell's value by the one given.
WatchSend(cell, value) == value

\* Mutant of WatchGossipSend: a failed send is logged and the loop sleeps.
WatchGossipSend_ignore_error ==
    /\ gossip_task.pc = "send"
    /\ ~GossipBorrowed
    /\ gossip_data_watch' = IF ReceiversAlive
                            THEN WatchSend(gossip_data_watch, gossip_task.value)
                            ELSE gossip_data_watch
    /\ gossip_task' = [gossip_task EXCEPT !.pc = "sleep",
                                          !.peers = NoValue,
                                          !.wake = now + GossipSleepSecs]
    /\ UNCHANGED <<now, stakes_watch, stakes_task, handler, response>>

\* gossip_data_tx.send(value)?; then the sleep starts.  send fails, and `?`
\* returns the error, when no Receiver is left; the cell is then untouched.
WatchGossipSend ==
    /\ gossip_task.pc = "send"
    /\ ~GossipBorrowed
    /\ IF ReceiversAlive
       THEN /\ gossip_data_watch' = WatchSend(gossip_data_watch, gossip_task.value)
            /\ gossip_task' = [gossip_task EXCEPT !.pc = "sleep",
                                                  !.peers = NoValue,
                                                  !.wake = now + GossipSleepSecs]
       ELSE /\ gossip_data_watch' = gossip_data_watch
            /\ gossip_task' = [gossip_task EXCEPT !.pc = "done", !.peers = NoValue,
                                                  !.result = "Err"]
    /\ UNCHANGED <<now, stakes_watch, stakes_task, handler, response>>

\* tokio::time::sleep(10 s) completes, at the deadline or later.
WatchGossipWake ==
    /\ gossip_task.pc = "sleep"
    /\ now >= gossip_task.wake
    /\ gossip_task' = [gossip_task EXCEPT !.pc = "run", !.value = NoValue]
    /\ UNCHANGED <<now, gossip_data_watch, stakes_watch, stakes_task, handler, response>>

(***************************************************************************)
(* stakes_refresh_loop and fetch_validator_ips (rpc_request.rs).           *)
(* A parsed response is [current |-> seq, delinquent |-> seq] of vote      *)
(* accounts [vote_pubkey, node_pubkey, activated_stake].                   *)
(***************************************************************************)
VoteAccount(vote_pubkey, node_pubkey, activated_stake) ==
    [vote_pubkey |-> vote_pubkey, node_pubkey |-> node_pubkey,
     activated_stake |-> activated_stake]

\* Ok(StakeData { stake_amounts, ..Default::default() })
FetchValidatorIpsOk(vote_resp, t) == StakeData(StakeAmounts(vote_resp), t)

\* fetch_validator_ips returned Ok(ip_data).
StakesFetchOk(vote_resp) ==
    /\ stakes_task.pc = "fetch"
    /\ stakes_task' = [stakes_task EXCEPT !.pc = "send",
                                          !.vote_resp = vote_resp,
                                          !.value = FetchValidatorIpsOk(vote_resp, now)]
    /\ UNCHANGED <<now, gossip_data_watch, stakes_watch, gossip_task, handler, response>>

\* Mutant of StakesFetchErr: the Err arm publishes an empty default snapshot.
StakesFetchErr_publish_default ==
    /\ stakes_task.pc = "fetch"
    /\ stakes_watch' = StakeDataDefault(now)
    /\ stakes_task' = [stakes_task EXCEPT !.pc = "sleep",
                                          !.vote_resp = NoValue,
                                          !.value = NoValue,
                                          !.wake = now + StakesIntervalSecs]
    /\ UNCHANGED <<now, gossip_data_watch, gossip_task, handler, response>>

\* fetch_validator_ips returned Err (send failed, non-success status, or the
\* body did not parse): the error is logged and the sleep starts.
StakesFetchErr ==
    /\ stakes_task.pc = "fetch"
    /\ stakes_task' = [stakes_task EXCEPT !.pc = "sleep",
                                          !.vote_resp = NoValue,
                                          !.value = NoValue,
                                          !.wake = now + StakesIntervalSecs]
    /\ UNCHANGED <<now, gossip_data_watch, stakes_watch, gossip_task, handler, response>>

\* sender.send(ip_data)?; then the sleep starts.  send fails, and `?`
\* returns the error, when no Receiver is left; the cell is then untouched.
StakesSend ==
    /\ stakes_task.pc = "send"
    /\ ~StakesBorrowed
    /\ IF ReceiversAlive
       THEN /\ stakes_watch' = WatchSend(stakes_watch, stakes_task.value)
            /\ stakes_task' = [stakes_task EXCEPT !.pc = "sleep",
                                                  !.wake = now + StakesIntervalSecs]
       ELSE /\ stakes_watch' = stakes_watch
            /\ stakes_task' = [stakes_task EXCEPT !.pc = "done", !.result = "Err"]
    /\ UNCHANGED <<now, gossip_data_watch, gossip_task, handler, response>>

\* tokio::time::sleep(interval) completes, at the deadline or later.
StakesWake ==
    /\ stakes_task.pc = "sleep"
    /\ now >= stakes_task.wake
    /\ stakes_task' = [stakes_task EXCEPT !.pc = "fetch", !.vote_resp = NoValue,
                                          !.value = NoValue]
    /\ UNCHANGED <<now, gossip_data_watch, stakes_watch, gossip_task, handler, response>>

(***************************************************************************)
(* HTTP handlers (http_endpoint.rs).  A handler is served by its own task, *)
(* so the loops may run between two of its statements.                     *)
(***************************************************************************)
\* params.stake_threshold_sol.unwrap_or(LAMPORTS_PER_SOL)
StakeThresholdLamports(stake_threshold_sol) ==
    IF stake_threshold_sol = None THEN LAMPORTS_PER_SOL ELSE stake_threshold_sol[1]

\* get_allowlist_full and get_allowlist_short up to `let gossip =
\* state.0.borrow();` (the full listing takes no parameter).
HandlerBorrowGossip(route, params) ==
    /\ handler.pc = "idle"
    /\ handler' = [IdleHandler EXCEPT
                      !.pc = "gossip_borrowed",
                      !.route = route,
                      !.params = params,
                      !.stake_threshold_lamports =
                          IF route = "short" THEN StakeThresholdLamports(params) ELSE 0,
                      !.gossip = gossip_data_watch]
    /\ response' = NoResponse
    /\ UNCHANGED <<now, gossip_data_watch, stakes_watch, gossip_task, stakes_task>>

\* Mutant of HandlerBorrowStakes: the handler first awaits a Stake Snapshot
\* newer than the default (state.1.changed().await), then borrows.
HandlerBorrowStakes_awaits_refresh ==
    /\ handler.pc = "gossip_borrowed"
    /\ stakes_watch /= StakeDataDefault(0)
    /\ handler' = [handler EXCEPT !.pc = "both_borrowed", !.stakes = stakes_watch]
    /\ UNCHANGED <<now, gossip_data_watch, stakes_watch, gossip_task, stakes_task,
                   response>>

\* let stakes = state.1.borrow();
HandlerBorrowStakes ==
    /\ handler.pc = "gossip_borrowed"
    /\ handler' = [handler EXCEPT !.pc = "both_borrowed", !.stakes = stakes_watch]
    /\ UNCHANGED <<now, gossip_data_watch, stakes_watch, gossip_task, stakes_task,
                   response>>

\* Mutant of FullResults: an identity without stake entry is skipped.
RECURSIVE FullResults_inner_join(_, _, _)
FullResults_inner_join(order, gossip, stakes) ==
    IF order = <<>> THEN <<>>
    ELSE LET identity == Head(order)
             ports    == gossip.gossip_data[identity]
         IN  (IF identity \in DOMAIN stakes.stake_amounts
              THEN <<AllowlistEntry_new(ports, stakes.stake_amounts[identity])>>
              ELSE <<>>)
             \o FullResults_inner_join(Tail(order), gossip, stakes)

\* The loop of get_allowlist_full over gossip.gossip_data.iter(), the HashMap
\* being iterated in the order `order`.
RECURSIVE FullResults(_, _, _)
FullResults(order, gossip, stakes) ==
    IF order = <<>> THEN <<>>
    ELSE LET identity == Head(order)
             ports    == gossip.gossip_data[identity]
             stake    == GetOrDefault(stakes.stake_amounts, identity)
         IN  <<AllowlistEntry_new(ports, stake)>>
             \o FullResults(Tail(order), gossip, stakes)

\* get_allowlist_full: the loop and the response; both Refs are dropped.
GetAllowlistFull ==
    /\ handler.pc = "both_borrowed"
    /\ handler.route = "full"
    /\ \E order \in Orders(DOMAIN handler.gossip.gossip_data) :
          response' = [status |-> 200,
                       body |-> FullResults(order, handler.gossip, handler.stakes)]
    /\ handler' = [handler EXCEPT !.pc = "idle"]
    /\ UNCHANGED <<now, gossip_data_watch, stakes_watch, gossip_task, stakes_task>>

\* Mutant of ShortBuckets: a stake equal to the threshold counts as staked.
RECURSIVE ShortBuckets_ge(_, _, _, _, _)
ShortBuckets_ge(order, gossip, stakes, stake_threshold_lamports, acc) ==
    IF order = <<>> THEN acc
    ELSE LET identity == Head(order)
             ports    == gossip.gossip_data[identity]
             stake    == GetOrDefault(stakes.stake_amounts, identity)
             next     == IF stake >= stake_threshold_lamports
                         THEN [acc EXCEPT !.staked = @ \o all_ips(ports)]
                         ELSE [acc EXCEPT !.unstaked = @ \o all_ips(ports)]
         IN  ShortBuckets_ge(Tail(order), gossip, stakes, stake_threshold_lamports, next)

\* The loop of get_allowlist_short: each identity's all_ips() is appended to
\* response.staked or to response.unstaked.
RECURSIVE ShortBuckets(_, _, _, _, _)
ShortBuckets(order, gossip, stakes, stake_threshold_lamports, acc) ==
    IF order = <<>> THEN acc
    ELSE LET identity == Head(order)
             ports    == gossip.gossip_data[identity]
             stake    == GetOrDefault(stakes.stake_amounts, identity)
             next     == IF stake > stake_threshold_lamports
                         THEN [acc EXCEPT !.staked = @ \o all_ips(ports)]
                         ELSE [acc EXCEPT !.unstaked = @ \o all_ips(ports)]
         IN  ShortBuckets(Tail(order), gossip, stakes, stake_threshold_lamports, next)

\* The body of get_allowlist_short's response.
ShortResponse(order, gossip, stakes, stake_threshold_lamports) ==
    LET filled == ShortBuckets(order, gossip, stakes, stake_threshold_lamports,
                               [staked |-> <<>>, unstaked |-> <<>>])
    IN  [staked   |-> aggregate_into_24s(filled.staked),
         unstaked |-> aggregate_into_24s(filled.unstaked)]

\* get_allowlist_short: the loop, the two aggregations and the response.
GetAllowlistShort ==
    /\ handler.pc = "both_borrowed"
    /\ handler.route = "short"
    /\ \E order \in Orders(DOMAIN handler.gossip.gossip_data) :
          response' = [status |-> 200,
                       body |-> ShortResponse(order, handler.gossip, handler.stakes,
                                              handler.stake_threshold_lamports)]
    /\ handler' = [handler EXCEPT !.pc = "idle"]
    /\ UNCHANGED <<now, gossip_data_watch, stakes_watch, gossip_task, stakes_task>>

\* Instant::elapsed()
Elapsed(last_update) == now - last_update

\* let gossip_age = state.0.borrow().last_update.elapsed();
GetHealthGossipAge ==
    /\ handler.pc = "idle"
    /\ handler' = [IdleHandler EXCEPT !.pc = "health",
                                      !.route = "health",
                                      !.gossip_age = Elapsed(gossip_data_watch.last_update)]
    /\ response' = NoResponse
    /\ UNCHANGED <<now, gossip_data_watch, stakes_watch, gossip_task, stakes_task>>

\* Mutant of HealthResult: the stake age is the one compared.
HealthResult_stake_age(gossip_age, stake_age) ==
    IF stake_age < HealthMaxAgeSecs
    THEN [status |-> 200, body |-> <<gossip_age, stake_age>>]
    ELSE [status |-> 500, body |-> <<>>]

\* The result of get_health from the two ages.
HealthResult(gossip_age, stake_age) ==
    IF gossip_age < HealthMaxAgeSecs
    THEN [status |-> 200, body |-> <<gossip_age, stake_age>>]
    ELSE [status |-> 500, body |-> <<>>]

\* Mutant of GetHealth: the handler stamps the Membership Snapshot as seen
\* (send_modify on the cell) when it answers.
GetHealth_stamps_cell ==
    /\ handler.pc = "health"
    /\ LET stake_age == Elapsed(stakes_watch.last_update)
       IN  /\ handler' = [handler EXCEPT !.pc = "idle", !.stake_age = stake_age]
           /\ response' = HealthResult(handler.gossip_age, stake_age)
    /\ gossip_data_watch' = [gossip_data_watch EXCEPT !.last_update = now]
    /\ UNCHANGED <<now, stakes_watch, gossip_task, stakes_task>>

\* let stake_age = state.1.borrow().last_update.elapsed(); and the result.
GetHealth ==
    /\ handler.pc = "health"
    /\ LET stake_age == Elapsed(stakes_watch.last_update)
       IN  /\ handler' = [handler EXCEPT !.pc = "idle", !.stake_age = stake_age]
           /\ response' = HealthResult(handler.gossip_age, stake_age)
    /\ UNCHANGED <<now, gossip_data_watch, stakes_watch, gossip_task, stakes_task>>

(***************************************************************************)
(* Inputs of the model: what the two collaborators may answer.             *)
(***************************************************************************)
NoContact == ContactInfo("none", None, None, None, None, None, None, None, None)

\* The record of the spec's example: three endpoints in 1.2.3.0/24.
PeerA == ContactInfo("A", Some(SocketAddr(V4(1, 2, 3, 4), 8001)),
                          Some(SocketAddr(V4(1, 2, 3, 5), 8002)),
                          None, None, None, None,
                          Some(SocketAddr(V4(1, 2, 3, 6), 8003)), None)

\* The same identity advertising other endpoints, some optional, one IPv6.
PeerA2 == ContactInfo("A", Some(SocketAddr(V4(9, 9, 9, 9), 8001)),
                           Some(SocketAddr(V4(9, 9, 9, 10), 8002)),
                           None, Some(SocketAddr(V6(1), 8009)),
                           Some(SocketAddr(V4(9, 9, 8, 1), 8005)), None,
                           Some(SocketAddr(V4(0, 255, 255, 9), 8003)), None)

\* A second identity sharing a /24 with PeerA, with an IPv6 required endpoint.
PeerB == ContactInfo("B", Some(SocketAddr(V4(1, 2, 3, 200), 8001)),
                          Some(SocketAddr(V4(1, 2, 4, 1), 8002)),
                          None, None, None, None,
                          Some(SocketAddr(V6(2), 8003)),
                          Some(SocketAddr(V4(1, 2, 4, 77), 8010)))

\* A record without its TVU endpoint.
PeerC == ContactInfo("C", Some(SocketAddr(V4(7, 7, 7, 7), 8001)),
                          Some(SocketAddr(V4(7, 7, 7, 8), 8002)),
                          None, None, None, None, None, None)

PeerPool == {PeerA, PeerA2, PeerB, PeerC}

MaxPeers == 2

\* What all_peers() may return.
PeerListings == SeqsUpTo(PeerPool, MaxPeers)

VoteA1 == VoteAccount("v1", "A", LAMPORTS_PER_SOL)

VoteA2 == VoteAccount("v2", "A", 1)

VoteB == VoteAccount("v3", "B", 1)

VotePool == <<VoteA1, VoteA2, VoteB>>

\* The accounts of VotePool that `where` places in list `which`, in order.
RECURSIVE Placed(_, _, _)
Placed(where, which, i) ==
    IF i > Len(VotePool) THEN <<>>
    ELSE (IF where[i] = which THEN <<VotePool[i]>> ELSE <<>>)
         \o Placed(where, which, i + 1)

\* What getVoteAccounts may answer: every vote account is absent, current or
\* delinquent.
VoteResponses ==
    {[current |-> Placed(w, "current", 1), delinquent |-> Placed(w, "delinquent", 1)] :
        w \in [1..Len(VotePool) -> {"absent", "current", "delinquent"}]}

MaxThresholdSol == 2

\* The stake_threshold_sol query parameter: absent, or an integer.
ThresholdParams == {None} \cup {Some(n) : n \in 0..MaxThresholdSol}

\* A call not made yet, and a call that returned.
Pending == [done |-> FALSE, result |-> <<>>]

Returned(result) == [done |-> TRUE, result |-> result]

\* The functions' variables while the system runs.
InitFnIdle ==
    /\ addrs = <<>>
    /\ addrs_in = <<>>
    /\ agg_calls = 0
    /\ contact = NoContact
    /\ try_from = Pending
    /\ ips_out = Pending
    /\ new_entry = Pending

Init == InitSys /\ InitFnIdle

(***************************************************************************)
(* SpecQuery: the first seconds of the system, before either sleep can end: *)
(* the two loops publish whatever the collaborators answer and the         *)
(* listings are requested at any point.                                    *)
(***************************************************************************)
QueryInstants == {5}

NextQuery ==
    \/ \E t \in QueryInstants : Tick(t) /\ UNCHANGED rest_vars
    \/ \E peers \in PeerListings : WatchGossipBuild(peers) /\ UNCHANGED rest_vars
    \/ WatchGossipSend /\ UNCHANGED rest_vars
    \/ \E vote_resp \in VoteResponses : StakesFetchOk(vote_resp) /\ UNCHANGED rest_vars
    \/ StakesFetchErr /\ UNCHANGED rest_vars
    \/ StakesSend /\ UNCHANGED rest_vars
    \/ HandlerBorrowGossip("full", None) /\ UNCHANGED rest_vars
    \/ \E p \in ThresholdParams : HandlerBorrowGossip("short", p) /\ UNCHANGED rest_vars
    \/ HandlerBorrowStakes /\ UNCHANGED rest_vars
    \/ GetAllowlistFull /\ UNCHANGED rest_vars
    \/ GetAllowlistShort /\ UNCHANGED rest_vars

SpecQuery == Init /\ [][NextQuery]_vars

(***************************************************************************)
(* Spec: the running system over time.  The clock moves from one of the    *)
(* instants below to a later one; the collaborators answer from small sets.*)
(***************************************************************************)
Instants == {9, 10, 20, 60, 70}

SysPeerListings == {<<>>, <<PeerA>>}

SysVoteResponses == {[current |-> <<VoteA1>>, delinquent |-> <<>>],
                     [current |-> <<>>, delinquent |-> <<VoteB>>]}

Next ==
    \/ \E t \in Instants : Tick(t) /\ UNCHANGED rest_vars
    \/ \E peers \in SysPeerListings : WatchGossipBuild(peers) /\ UNCHANGED rest_vars
    \/ WatchGossipSend /\ UNCHANGED rest_vars
    \/ WatchGossipWake /\ UNCHANGED rest_vars
    \/ \E vote_resp \in SysVoteResponses : StakesFetchOk(vote_resp) /\ UNCHANGED rest_vars
    \/ StakesFetchErr /\ UNCHANGED rest_vars
    \/ StakesSend /\ UNCHANGED rest_vars
    \/ StakesWake /\ UNCHANGED rest_vars
    \/ HandlerBorrowGossip("full", None) /\ UNCHANGED rest_vars
    \/ HandlerBorrowGossip("short", None) /\ UNCHANGED rest_vars
    \/ HandlerBorrowStakes /\ UNCHANGED rest_vars
    \/ GetAllowlistFull /\ UNCHANGED rest_vars
    \/ GetAllowlistShort /\ UNCHANGED rest_vars
    \/ GetHealthGossipAge /\ UNCHANGED rest_vars
    \/ GetHealth /\ UNCHANGED rest_vars

Spec == Init /\ [][Next]_vars

(***************************************************************************)
(* main (main.rs): the select! over ctrl_c(), rpc_watch, gossip_watch and  *)
(* http_server, then cancel.cancel() and std::process::exit(0).            *)
(***************************************************************************)
SelectArms == {"ctrl_c", "rpc_watch", "gossip_watch", "http_server"}

\* An arm of the select! is ready: SIGINT was received; stakes_refresh_loop,
\* which main polls itself, returned; the JoinHandle of the spawned
\* watch_gossip resolved; run_http returned (bind or serve ended).
ArmReady(arm) ==
    CASE arm = "ctrl_c"       -> TRUE
      [] arm = "rpc_watch"    -> stakes_task.pc = "done"
      [] arm = "gossip_watch" -> gossip_task.pc = "done"
      [] arm = "http_server"  -> TRUE

\* Mutant of MainSelect: a loop that ended is spawned again and the select!
\* goes on waiting.
MainSelect_restart(arm) ==
    /\ main_task.pc = "select"
    /\ ArmReady(arm)
    /\ IF arm = "gossip_watch"
       THEN /\ gossip_task' = [gossip_task EXCEPT !.pc = "run", !.result = "none"]
            /\ UNCHANGED <<main_task, app_state>>
       ELSE /\ main_task' = [pc |-> "cancel", arm |-> arm]
            /\ app_state' = IF arm = "http_server" THEN "dropped" ELSE app_state
            /\ UNCHANGED gossip_task
    /\ UNCHANGED <<now, gossip_data_watch, stakes_watch, stakes_task,
                   handler, response, cancel>>

\* The select! completes with the first ready arm; its value is printed.
\* The future of run_http, once it has returned, has dropped its AppState.
MainSelect(arm) ==
    /\ main_task.pc = "select"
    /\ ArmReady(arm)
    /\ main_task' = [pc |-> "cancel", arm |-> arm]
    /\ app_state' = IF arm = "http_server" THEN "dropped" ELSE app_state
    /\ UNCHANGED <<now, gossip_data_watch, stakes_watch, gossip_task, stakes_task,
                   handler, response, cancel>>

\* cancel.cancel();
MainCancel ==
    /\ main_task.pc = "cancel"
    /\ cancel' = TRUE
    /\ main_task' = [main_task EXCEPT !.pc = "exit"]
    /\ UNCHANGED <<now, gossip_data_watch, stakes_watch, gossip_task, stakes_task,
                   handler, response, app_state>>

\* std::process::exit(0);
MainExit ==
    /\ main_task.pc = "exit"
    /\ main_task' = [main_task EXCEPT !.pc = "exited"]
    /\ UNCHANGED <<now, gossip_data_watch, stakes_watch, gossip_task, stakes_task,
                   handler, response, cancel, app_state>>

\* The spawned watch_gossip panics (make_gossip_node and all_peers are the
\* gossip library's): its JoinHandle resolves to a JoinError.
WatchGossipPanic ==
    /\ gossip_task.pc = "run"
    /\ gossip_task' = [gossip_task EXCEPT !.pc = "done", !.result = "Panic"]
    /\ UNCHANGED <<now, gossip_data_watch, stakes_watch, stakes_task, handler, response>>

\* The process has not exited: its tasks are scheduled.
ProcessAlive == main_task.pc /= "exited"

\* stakes_refresh_loop is a future main polls inside the select! only.
RpcWatchPolled == main_task.pc = "select"

\* A request is routed to a handler while the Router has its state.
Serving == ProcessAlive /\ app_state = "held"

(***************************************************************************)
(* SpecSupervise: the whole life of the process, from the select! to the   *)
(* exit, over a few instants and with one answer per collaborator.         *)
(* Fairness: tokio runs a task that is ready (weak fairness on the steps   *)
(* of main, of watch_gossip and of a handler in flight); the write lock a  *)
(* send waits for is granted before later readers (strong fairness on the  *)
(* send).  Nothing makes time pass, a collaborator answer, a request come  *)
(* or SIGINT arrive.                                                       *)
(***************************************************************************)
SupInstants == {10, 60}

SupPeerListings == {<<PeerA>>}

SupVoteResponses == {[current |-> <<VoteA1>>, delinquent |-> <<>>]}

NextSupervise ==
    \/ \E t \in SupInstants : ProcessAlive /\ Tick(t) /\ UNCHANGED rest_vars
    \/ \E peers \in SupPeerListings :
          ProcessAlive /\ WatchGossipBuild(peers) /\ UNCHANGED rest_vars
    \/ ProcessAlive /\ WatchGossipCancelled /\ UNCHANGED rest_vars
    \/ ProcessAlive /\ WatchGossipPanic /\ UNCHANGED rest_vars
    \/ ProcessAlive /\ WatchGossipSend /\ UNCHANGED rest_vars
    \/ ProcessAlive /\ WatchGossipWake /\ UNCHANGED rest_vars
    \/ \E vote_resp \in SupVoteResponses :
          RpcWatchPolled /\ StakesFetchOk(vote_resp) /\ UNCHANGED rest_vars
    \/ RpcWatchPolled /\ StakesFetchErr /\ UNCHANGED rest_vars
    \/ RpcWatchPolled /\ StakesSend /\ UNCHANGED rest_vars
    \/ RpcWatchPolled /\ StakesWake /\ UNCHANGED rest_vars
    \/ Serving /\ HandlerBorrowGossip("full", None) /\ UNCHANGED rest_vars
    \/ Serving /\ HandlerBorrowGossip("short", None) /\ UNCHANGED rest_vars
    \/ ProcessAlive /\ HandlerBorrowStakes /\ UNCHANGED rest_vars
    \/ ProcessAlive /\ GetAllowlistFull /\ UNCHANGED rest_vars
    \/ ProcessAlive /\ GetAllowlistShort /\ UNCHANGED rest_vars
    \/ Serving /\ GetHealthGossipAge /\ UNCHANGED rest_vars
    \/ ProcessAlive /\ GetHealth /\ UNCHANGED rest_vars
    \/ \E arm \in SelectArms : MainSelect(arm) /\ UNCHANGED fn_vars
    \/ MainCancel /\ UNCHANGED fn_vars
    \/ MainExit /\ UNCHANGED fn_vars

\* The steps of main once an awaited task has ended.
MainStep ==
    \/ \E arm \in {"rpc_watch", "gossip_watch"} : MainSelect(arm) /\ UNCHANGED fn_vars
    \/ MainCancel /\ UNCHANGED fn_vars
    \/ MainExit /\ UNCHANGED fn_vars

\* The steps of watch_gossip other than the send (and the end of a sleep,
\* which waits for the clock).
WatchGossipStep ==
    \/ \E peers \in SupPeerListings :
          ProcessAlive /\ WatchGossipBuild(peers) /\ UNCHANGED rest_vars
    \/ ProcessAlive /\ WatchGossipCancelled /\ UNCHANGED rest_vars
    \/ ProcessAlive /\ WatchGossipWake /\ UNCHANGED rest_vars

\* The steps of a handler in flight.
HandlerStep ==
    \/ ProcessAlive /\ HandlerBorrowStakes /\ UNCHANGED rest_vars
    \/ ProcessAlive /\ GetAllowlistFull /\ UNCHANGED rest_vars
    \/ ProcessAlive /\ GetAllowlistShort /\ UNCHANGED rest_vars
    \/ ProcessAlive /\ GetHealth /\ UNCHANGED rest_vars

SpecSupervise ==
    /\ Init
    /\ [][NextSupervise]_vars
    /\ WF_vars(MainStep)
    /\ WF_vars(WatchGossipStep)
    /\ SF_vars(ProcessAlive /\ WatchGossipSend /\ UNCHANGED rest_vars)
    /\ WF_vars(HandlerStep)

(***************************************************************************)
(* SpecLoops: watch_gossip and stakes_refresh_loop as the functions they   *)
(* are, run by a caller that polls each until it returns, cancels the      *)
(* token it gave and drops the Receivers of the two channels when it       *)
(* likes.  main is one such caller: it stops polling stakes_refresh_loop   *)
(* and exits right after cancel() (SpecSupervise).                         *)
(***************************************************************************)
\* The caller cancels the token.
CancelToken ==
    /\ ~cancel
    /\ cancel' = TRUE
    /\ UNCHANGED <<now, gossip_data_watch, stakes_watch, gossip_task, stakes_task,
                   handler, response, main_task, app_state>>

\* The caller drops the Receivers.
DropReceivers ==
    /\ app_state = "held"
    /\ app_state' = "dropped"
    /\ UNCHANGED <<now, gossip_data_watch, stakes_watch, gossip_task, stakes_task,
                   handler, response, cancel, main_task>>

LoopInstants == {10, 60}

NextLoops ==
    \/ \E t \in LoopInstants : Tick(t) /\ UNCHANGED rest_vars
    \/ \E peers \in SysPeerListings : WatchGossipBuild(peers) /\ UNCHANGED rest_vars
    \/ WatchGossipCancelled /\ UNCHANGED rest_vars
    \/ WatchGossipSend /\ UNCHANGED rest_vars
    \/ WatchGossipWake /\ UNCHANGED rest_vars
    \/ \E vote_resp \in SysVoteResponses : StakesFetchOk(vote_resp) /\ UNCHANGED rest_vars
    \/ StakesFetchErr /\ UNCHANGED rest_vars
    \/ StakesSend /\ UNCHANGED rest_vars
    \/ StakesWake /\ UNCHANGED rest_vars
    \/ CancelToken /\ UNCHANGED fn_vars
    \/ DropReceivers /\ UNCHANGED fn_vars

SpecLoops == Init /\ [][NextLoops]_vars

(***************************************************************************)
(* SpecGossip: watch_gossip alone over two cycles, all_peers() listing any *)
(* records of GossipPeerPool, valid or not, an identity more than once.    *)
(***************************************************************************)
\* A record without its gossip endpoint, all optional endpoints present.
PeerD == ContactInfo("D", None,
                          Some(SocketAddr(V4(8, 8, 8, 1), 8002)),
                          Some(SocketAddr(V4(8, 8, 8, 2), 8004)),
                          Some(SocketAddr(V4(8, 8, 8, 3), 8009)),
                          Some(SocketAddr(V4(8, 8, 8, 4), 8005)),
                          Some(SocketAddr(V4(8, 8, 8, 5), 8006)),
                          Some(SocketAddr(V4(8, 8, 8, 6), 8003)),
                          Some(SocketAddr(V4(8, 8, 8, 7), 8010)))

\* A record without its serve_repair endpoint.
PeerE == ContactInfo("E", Some(SocketAddr(V4(6, 6, 6, 1), 8001)),
                          None, None, None, None, None,
                          Some(SocketAddr(V4(6, 6, 6, 2), 8003)), None)

\* A record with every endpoint.
PeerF == ContactInfo("F", Some(SocketAddr(V4(5, 5, 5, 1), 8001)),
                          Some(SocketAddr(V4(5, 5, 5, 2), 8002)),
                          Some(SocketAddr(V4(5, 5, 5, 3), 8004)),
                          Some(SocketAddr(V4(5, 5, 5, 4), 8009)),
                          Some(SocketAddr(V4(5, 5, 5, 5), 8005)),
                          Some(SocketAddr(V4(5, 5, 5, 6), 8006)),
                          Some(SocketAddr(V4(5, 5, 5, 7), 8003)),
                          Some(SocketAddr(V4(5, 5, 5, 8), 8010)))

GossipPeerPool == PeerPool \cup {PeerD, PeerE, PeerF}

GossipPeerListings == SeqsUpTo(GossipPeerPool, MaxPeers)

GossipInstants == {10}

NextGossip ==
    \/ \E t \in GossipInstants : Tick(t) /\ UNCHANGED rest_vars
    \/ \E peers \in GossipPeerListings : WatchGossipBuild(peers) /\ UNCHANGED rest_vars
    \/ WatchGossipSend /\ UNCHANGED rest_vars
    \/ WatchGossipWake /\ UNCHANGED rest_vars

SpecGossip == Init /\ [][NextGossip]_vars

(***************************************************************************)
(* SpecAggregate: aggregate_into_24s applied, up to MaxAggCalls times in a *)
(* row, to every vector of at most MaxAddrs addresses of AddrPool.         *)
(***************************************************************************)
AddrPool == {<<1, 2, 3, 4>>, <<1, 2, 3, 255>>, <<1, 2, 4, 0>>, <<1, 3, 0, 7>>,
             <<0, 255, 255, 9>>, <<127, 0, 0, 1>>, <<10, 0, 0, 0>>}

MaxAddrs == 3

MaxAggCalls == 2

InitAggregate ==
    /\ InitSys
    /\ addrs \in SeqsUpTo(AddrPool, MaxAddrs)
    /\ addrs_in = addrs
    /\ agg_calls = 0
    /\ contact = NoContact
    /\ try_from = Pending
    /\ ips_out = Pending
    /\ new_entry = Pending

\* aggregate_into_24s(&mut addrs)
Aggregate ==
    /\ agg_calls < MaxAggCalls
    /\ addrs' = aggregate_into_24s(addrs)
    /\ agg_calls' = agg_calls + 1
    /\ UNCHANGED <<addrs_in, contact, try_from, ips_out, new_entry>>
    /\ UNCHANGED sys_vars

NextAggregate == Aggregate

SpecAggregate == InitAggregate /\ [][NextAggregate]_vars

(***************************************************************************)
(* SpecPorts: Ports::try_from, all_ips and AllowlistEntry::new applied to  *)
(* every ContactInfo whose endpoints are each absent, IPv4 or IPv6.        *)
(***************************************************************************)
\* What the accessor of the k-th endpoint (in the order of ContactInfo's
\* parameters) may return.
RoleChoices(k) == {None, Some(SocketAddr(V4(10, 0, k, k), 8000 + k)),
                         Some(SocketAddr(V6(k), 8000 + k))}

Contacts ==
    {ContactInfo("A", c1, c2, c3, c4, c5, c6, c7, c8) :
        c1 \in RoleChoices(1), c2 \in RoleChoices(2), c3 \in RoleChoices(3),
        c4 \in RoleChoices(4), c5 \in RoleChoices(5), c6 \in RoleChoices(6),
        c7 \in RoleChoices(7), c8 \in RoleChoices(8)}

EntryStakes == {0, 7}

InitPorts ==
    /\ InitSys
    /\ addrs = <<>>
    /\ addrs_in = <<>>
    /\ agg_calls = 0
    /\ contact \in Contacts
    /\ try_from = Pending
    /\ ips_out = Pending
    /\ new_entry = Pending

\* Ports::try_from(contact)
TryFrom ==
    /\ ~try_from.done
    /\ try_from' = Returned(TryFromContactInfo(contact))
    /\ UNCHANGED <<addrs, addrs_in, agg_calls, contact, ips_out, new_entry>>
    /\ UNCHANGED sys_vars

\* ports.all_ips() on the Ports obtained
AllIps ==
    /\ try_from.done
    /\ try_from.result /= <<>>
    /\ ~ips_out.done
    /\ ips_out' = Returned(all_ips(try_from.result[1]))
    /\ UNCHANGED <<addrs, addrs_in, agg_calls, contact, try_from, new_entry>>
    /\ UNCHANGED sys_vars

\* AllowlistEntry::new(&ports, stake) on the Ports obtained
NewEntry(stake) ==
    /\ try_from.done
    /\ try_from.result /= <<>>
    /\ ~new_entry.done
    /\ new_entry' = Returned(AllowlistEntry_new(try_from.result[1], stake))
    /\ UNCHANGED <<addrs, addrs_in, agg_calls, contact, try_from, ips_out>>
    /\ UNCHANGED sys_vars

NextPorts ==
    \/ TryFrom
    \/ AllIps
    \/ \E stake \in EntryStakes : NewEntry(stake)

SpecPorts == InitPorts /\ [][NextPorts]_vars

(***************************************************************************)
(* Properties of the single functions.                                     *)
(***************************************************************************)
\* The u32 value of an address with its low 8 bits zeroed.
MaskedU32(ip) == ToU32(ip) - (ToU32(ip) % 256)

\* C4: after aggregate_into_24s the vector is strictly ascending in numeric
\* order, holds no network twice, every element is the /24-masked value of
\* some address given, the /24-masked value of every address given is in it,
\* and an empty vector stays empty.
C4_AggregateSortedDistinctCovering ==
    agg_calls >= 1 =>
        /\ \A i \in 1..(Len(addrs) - 1) : ToU32(addrs[i]) < ToU32(addrs[i + 1])
        /\ \A i, j \in DOMAIN addrs : i /= j => addrs[i] /= addrs[j]
        /\ \A i \in DOMAIN addrs :
              /\ addrs[i][4] = 0
              /\ \E k \in DOMAIN addrs_in : ToU32(addrs[i]) = MaskedU32(addrs_in[k])
        /\ \A k \in DOMAIN addrs_in :
              \E i \in DOMAIN addrs : ToU32(addrs[i]) = MaskedU32(addrs_in[k])
        /\ (addrs_in = <<>> => addrs = <<>>)

\* Witness of C4: three addresses given out of order, two of them in one
\* /24, aggregated into two networks.
C4_Witness ==
    /\ agg_calls = 1
    /\ Len(addrs_in) = 3
    /\ ToU32(addrs_in[1]) > ToU32(addrs_in[3])
    /\ MaskedU32(addrs_in[1]) = MaskedU32(addrs_in[2])
    /\ addrs_in[1] /= addrs_in[2]
    /\ Len(addrs) = 2

\* The endpoints an Endpoint Record has: the three required ones and every
\* optional one that is present.
EndpointsOf(p) ==
    {p.gossip, p.serve_repair, p.turbine}
    \cup {o[1] : o \in {p.tpu_forwards_quic, p.tpu_quic, p.tpu_vote,
                        p.tpu_vote_quic, p.alpenglow} \ {None}}

\* C5: all_ips returns exactly the IPv4 addresses of the record's required
\* endpoints and present optional endpoints, each once, and no IPv6 address,
\* wherever the IPv6 address sits; an absent optional endpoint adds nothing.
C5_AllIpsExactlyV4 ==
    ips_out.done =>
        LET p    == try_from.result[1]
            v4   == {e.ip.octets : e \in {x \in EndpointsOf(p) : x.ip.kind = "V4"}}
            v6   == {e.ip.octets : e \in {x \in EndpointsOf(p) : x.ip.kind = "V6"}}
            out  == ips_out.result
        IN  /\ Range(out) = v4
            /\ Len(out) = Cardinality(v4)
            /\ Range(out) \cap v6 = {}

\* Witness of C5: a record with an IPv6 required endpoint, an IPv6 optional
\* endpoint, an absent optional endpoint and an IPv4 optional endpoint.
C5_Witness ==
    /\ ips_out.done
    /\ try_from.result[1].gossip.ip.kind = "V6"
    /\ try_from.result[1].tpu_quic /= None
    /\ try_from.result[1].tpu_quic[1].ip.kind = "V6"
    /\ try_from.result[1].tpu_vote = None
    /\ try_from.result[1].alpenglow /= None
    /\ try_from.result[1].alpenglow[1].ip.kind = "V4"
    /\ Len(ips_out.result) = 3

\* The Descriptor the policy table gives an endpoint.
PolicyDescriptor(protocol, max_mbps, staked_only, address) ==
    [protocol |-> protocol, address |-> address, max_mbps |-> max_mbps,
     staked_only |-> staked_only]

\* An optional role carries the table's Descriptor iff the record has it.
OptionalPolicy(desc, endpoint, protocol, max_mbps, staked_only) ==
    /\ (desc = None) <=> (endpoint = None)
    /\ endpoint /= None =>
          desc = Some(PolicyDescriptor(protocol, max_mbps, staked_only, endpoint[1]))

\* C6: the Allowlist Entry built from an Endpoint Record classifies every
\* role by the policy table, carries a Descriptor for a role iff the record
\* has that endpoint, and each Descriptor's address is the record's endpoint.
C6_DescriptorPolicyTable ==
    new_entry.done =>
        LET p == try_from.result[1]
            e == new_entry.result
        IN  /\ e.pubkey = p.pubkey
            /\ e.gossip = PolicyDescriptor("UDP", 50, FALSE, p.gossip)
            /\ e.serve_repair = PolicyDescriptor("UDP", 200, TRUE, p.serve_repair)
            /\ e.turbine = PolicyDescriptor("UDP", 200, TRUE, p.turbine)
            /\ OptionalPolicy(e.tpu_forwards_quic, p.tpu_forwards_quic, "QUIC", 100, FALSE)
            /\ OptionalPolicy(e.tpu_quic, p.tpu_quic, "QUIC", 100, FALSE)
            /\ OptionalPolicy(e.tpu_vote_quic, p.tpu_vote_quic, "QUIC", 100, FALSE)
            /\ OptionalPolicy(e.tpu_vote, p.tpu_vote, "UDP", 10, TRUE)
            /\ OptionalPolicy(e.alpenglow, p.alpenglow, "UDP", 10, TRUE)

\* Witness of C6: an entry built from a record with tpu_vote, tpu_quic and
\* alpenglow but without tpu_vote_quic and tpu_forwards_quic.
C6_Witness ==
    /\ new_entry.done
    /\ new_entry.result.tpu_vote /= None
    /\ new_entry.result.tpu_quic /= None
    /\ new_entry.result.alpenglow /= None
    /\ new_entry.result.tpu_vote_quic = None
    /\ try_from.result[1].tpu_forwards_quic = None

(***************************************************************************)
(* Properties of the listings (SpecQuery).                                 *)
(***************************************************************************)
\* The snapshots the last handler read, and the stake the join gives.
ReadMembership == handler.gossip.gossip_data

ReadStakes == handler.stakes.stake_amounts

JoinedStake(id) == IF id \in DOMAIN ReadStakes THEN ReadStakes[id] ELSE 0

FullAnswered == handler.pc = "idle" /\ handler.route = "full"

ShortAnswered == handler.pc = "idle" /\ handler.route = "short"

\* C1: the full listing holds exactly one entry for every identity of the
\* Membership Snapshot read and none for any other identity, and the entry's
\* stake is the Stake Snapshot's amount for the identity, 0 when it has none.
C1_FullListingTotalJoin ==
    FullAnswered =>
        /\ response.status = 200
        /\ \A id \in DOMAIN ReadMembership :
              Cardinality({i \in DOMAIN response.body : response.body[i].pubkey = id}) = 1
        /\ \A i \in DOMAIN response.body :
              /\ response.body[i].pubkey \in DOMAIN ReadMembership
              /\ response.body[i].stake = JoinedStake(response.body[i].pubkey)

\* Witness of C1: a listing of two identities, one with stake and one absent
\* from the Stake Snapshot, from snapshots of different instants.
C1_Witness ==
    /\ FullAnswered
    /\ Len(response.body) = 2
    /\ \E i \in DOMAIN response.body :
          /\ response.body[i].pubkey \notin DOMAIN ReadStakes
          /\ response.body[i].stake = 0
    /\ \E i \in DOMAIN response.body : response.body[i].stake > 0
    /\ handler.gossip.last_update /= handler.stakes.last_update

\* The IPv4 addresses of all endpoints of the identities ids.
Ipv4Of(ids) ==
    UNION {{e.ip.octets : e \in {x \in EndpointsOf(ReadMembership[id]) : x.ip.kind = "V4"}} :
              id \in ids}

\* list is the /24 aggregation of the addresses ips.
IsAggregationOf(list, ips) ==
    /\ \A i \in 1..(Len(list) - 1) : ToU32(list[i]) < ToU32(list[i + 1])
    /\ \A i \in DOMAIN list : list[i][4] = 0
    /\ {ToU32(list[i]) : i \in DOMAIN list} = {MaskedU32(ip) : ip \in ips}

\* The short listing for threshold t, in lamports.
IsShortListingFor(t) ==
    LET staked == {id \in DOMAIN ReadMembership : JoinedStake(id) > t}
    IN  /\ IsAggregationOf(response.body.staked, Ipv4Of(staked))
        /\ IsAggregationOf(response.body.unstaked, Ipv4Of(DOMAIN ReadMembership \ staked))

\* C2: in the short listing, `staked` is the /24 aggregation of the IPv4
\* addresses of the identities whose stake is strictly above the threshold
\* and `unstaked` that of every other identity of the Membership Snapshot
\* (stake below or equal to the threshold, or no stake entry).
C2_ShortListingPartition ==
    ShortAnswered =>
        /\ response.status = 200
        /\ IsShortListingFor(handler.stake_threshold_lamports)

\* Witness of C2: an identity whose stake equals the threshold is listed
\* under `unstaked` while another identity is listed under `staked`.
C2_Witness ==
    /\ ShortAnswered
    /\ handler.stake_threshold_lamports > 0
    /\ \E id \in DOMAIN ReadMembership :
          /\ id \in DOMAIN ReadStakes
          /\ ReadStakes[id] = handler.stake_threshold_lamports
    /\ \E id \in DOMAIN ReadMembership : JoinedStake(id) > handler.stake_threshold_lamports
    /\ response.body.staked /= <<>>
    /\ Len(response.body.unstaked) = 2

\* The threshold in lamports that stake_threshold_sol stands for: n whole
\* units, one when the parameter is omitted.
WholeUnitsThreshold(stake_threshold_sol) ==
    (IF stake_threshold_sol = None THEN 1 ELSE stake_threshold_sol[1]) * LAMPORTS_PER_SOL

\* C3: stake_threshold_sol = n classifies an identity as staked iff its stake
\* exceeds n whole units, n * LAMPORTS_PER_SOL lamports, and an omitted
\* parameter stands for n = 1.
C3_ThresholdInWholeUnits ==
    ShortAnswered => IsShortListingFor(WholeUnitsThreshold(handler.params))

\* All vote accounts of a response, current and delinquent.
AllVoteAccounts(vote_resp) == vote_resp.current \o vote_resp.delinquent

\* The sum of the activated stake of the accounts that name identity id.
RECURSIVE StakeOf(_, _)
StakeOf(accounts, id) ==
    IF accounts = <<>> THEN 0
    ELSE (IF Head(accounts).node_pubkey = id THEN Head(accounts).activated_stake ELSE 0)
         + StakeOf(Tail(accounts), id)

\* A successful cycle has published: the response parsed is still at hand.
StakesPublished == stakes_task.pc = "sleep" /\ stakes_task.vote_resp /= NoValue

\* C9: after a successful cycle the Stake Snapshot maps each identity to the
\* sum of the activated stake of all returned vote accounts, current and
\* delinquent, that name it, and holds no other identity.
C9_StakeSumsAllVoteAccounts ==
    StakesPublished =>
        LET all == AllVoteAccounts(stakes_task.vote_resp)
        IN  /\ DOMAIN stakes_watch.stake_amounts = {all[i].node_pubkey : i \in DOMAIN all}
            /\ \A id \in DOMAIN stakes_watch.stake_amounts :
                  stakes_watch.stake_amounts[id] = StakeOf(all, id)

\* The values installed in each cell so far: the default of the creation and
\* the value of the loop's send.
InstalledGossip ==
    {GossipDataDefault(0)}
    \cup (IF gossip_task.pc = "sleep" THEN {gossip_task.value} ELSE {})

InstalledStakes ==
    {StakeDataDefault(0)}
    \cup (IF stakes_task.pc = "sleep" /\ stakes_task.value /= NoValue
          THEN {stakes_task.value} ELSE {})

\* C10: whatever the interleaving of a send with the handlers' borrows, a
\* borrow observes a map together with the timestamp it was built with: the
\* value one send installed, or the initial default.
C10_ReadsSeeOnePublish ==
    /\ handler.gossip /= NoValue => handler.gossip \in InstalledGossip
    /\ handler.stakes /= NoValue => handler.stakes \in InstalledStakes
    /\ gossip_data_watch \in InstalledGossip
    /\ stakes_watch \in InstalledStakes

\* Witness of C10: a handler holds the old Membership Snapshot while the new
\* one waits to be sent, and has read the Stake Snapshot of a later send.
C10_Witness ==
    /\ handler.pc = "both_borrowed"
    /\ handler.gossip = GossipDataDefault(0)
    /\ gossip_task.pc = "send"
    /\ gossip_task.value.gossip_data /= EmptyMap
    /\ handler.stakes.stake_amounts /= EmptyMap
    /\ handler.stakes.last_update > 0

(***************************************************************************)
(* Properties of the running system (Spec).                                *)
(***************************************************************************)
HealthAnswered == handler.pc = "idle" /\ handler.route = "health"

\* C7: the health check succeeds iff the age of the Membership Snapshot is
\* strictly below 10 seconds and fails otherwise, an age of exactly 10
\* seconds included, whatever the age of the Stake Snapshot.
C7_HealthIffMembershipFresh ==
    HealthAnswered =>
        /\ response.status \in {200, 500}
        /\ response.status = 200 <=> handler.gossip_age < 10

\* Witness of C7: a check fails on a Membership Snapshot exactly 10 seconds
\* old although the Stake Snapshot is younger than 10 seconds.
C7_Witness ==
    /\ HealthAnswered
    /\ response.status = 500
    /\ handler.gossip_age = 10
    /\ handler.stake_age < 10

ShutdownDue ==
    \/ gossip_task.pc = "done"
    \/ stakes_task.pc = "done"
    \/ main_task.pc /= "select"

\* main leaves the select! for cancel() and exit, never the other way.
MainOnlyForward ==
    /\ main_task.pc = "cancel" => main_task'.pc \in {"cancel", "exit"}
    /\ main_task.pc = "exit" => main_task'.pc \in {"exit", "exited"}
    /\ main_task.pc = "exited" => UNCHANGED vars

\* A loop that has returned, and an AppState dropped, stay so.
NothingRestarted ==
    /\ gossip_task.pc = "done" => gossip_task'.pc = "done"
    /\ stakes_task.pc = "done" => stakes_task'.pc = "done"
    /\ app_state = "dropped" => app_state' = "dropped"

\* C11: once a refresh loop, the query front end or an operator interrupt
\* has ended the select!, or a loop has ended, main sets the shutdown signal
\* and the process exits; main never goes back to the select!, nothing runs
\* after the exit, a loop that ended is never started again, and the signal
\* is set by main only on its way out.
C11_FailFastSupervision ==
    /\ [][MainOnlyForward /\ NothingRestarted]_vars
    /\ [](cancel => main_task.pc \in {"exit", "exited"})
    /\ (ShutdownDue ~> main_task.pc = "exited")

\* The process has exited because the Membership Refresh Loop ended while
\* main was in the select!.
C11_Witness ==
    /\ main_task.pc = "exited"
    /\ main_task.arm = "gossip_watch"
    /\ gossip_task.pc = "done"
    /\ cancel

\* A request is being handled.
HandlerInFlight == handler.pc /= "idle"

\* C15: whatever the Stake Refresh Loop does, its collaborator call never
\* returning included, a request being handled always has its next step at
\* hand and is answered, a send of the Membership Refresh Loop that finds
\* the cell borrowed is waiting for a handler that can go on, and the loop
\* gets through its condition and its send (unless the process exits first).
C15_LoopIsolation ==
    /\ [](ProcessAlive /\ HandlerInFlight => ENABLED HandlerStep)
    /\ [](ProcessAlive /\ gossip_task.pc = "send" =>
            \/ ENABLED (ProcessAlive /\ WatchGossipSend /\ UNCHANGED rest_vars)
            \/ ENABLED HandlerStep)
    /\ (HandlerInFlight ~> (~HandlerInFlight \/ ~ProcessAlive))
    /\ (gossip_task.pc = "send" ~> (gossip_task.pc /= "send" \/ ~ProcessAlive))
    /\ (gossip_task.pc = "run" ~> (gossip_task.pc /= "run" \/ ~ProcessAlive))

\* The stake collaborator has not answered since the start, the Membership
\* Refresh Loop has published its second snapshot and a short listing has
\* been answered from it.
C15_Witness ==
    /\ stakes_task.pc = "fetch"
    /\ stakes_watch = StakeDataDefault(0)
    /\ gossip_data_watch.last_update = 10
    /\ gossip_data_watch.gossip_data /= EmptyMap
    /\ handler.pc = "idle" /\ handler.route = "short"
    /\ handler.gossip = gossip_data_watch
    /\ response.status = 200

(***************************************************************************)
(* Properties of the two loops as functions.                               *)
(***************************************************************************)
\* watch_gossip goes through its loop condition into another cycle.
GossipCycleStarts == gossip_task.pc = "run" /\ gossip_task'.pc = "send"

\* stakes_refresh_loop goes from its sleep into another fetch.
StakesCycleStarts == stakes_task.pc = "sleep" /\ stakes_task'.pc = "fetch"

\* C12: once the shutdown signal is set, neither the Membership Refresh Loop
\* nor the Stake Refresh Loop goes past its cycle boundary into another
\* poll/publish cycle.
C12_LoopsStopOnCancel ==
    [][cancel => ~GossipCycleStarts /\ ~StakesCycleStarts]_vars

(***************************************************************************)
(* Further properties of the single functions.                             *)
(***************************************************************************)
\* C13: aggregate_into_24s applied to a vector it has already rewritten
\* leaves the vector as it is.
C13_AggregateIdempotent ==
    [][agg_calls >= 1 => addrs' = addrs]_vars

\* The second pass has run on the output of a first pass that had merged and
\* masked addresses.
C13_Witness ==
    /\ agg_calls = 2
    /\ Len(addrs_in) = 3
    /\ Len(addrs) = 2
    /\ addrs /= addrs_in

\* watch_gossip, respectively stakes_refresh_loop, takes its send step
\* while no Receiver is alive.
GossipPublishFails ==
    gossip_task.pc = "send" /\ ~ReceiversAlive /\ gossip_task' /= gossip_task

StakesPublishFails ==
    stakes_task.pc = "send" /\ ~ReceiversAlive /\ stakes_task' /= stakes_task

\* C14: a publish that fails because no receiver remains ends the owning
\* loop in that cycle: the loop returns the error, leaves its cell as it
\* was, and from then on neither sleeps nor polls again.
C14_PublishFailureEndsLoop ==
    [][/\ GossipPublishFails =>
            /\ gossip_task'.pc = "done"
            /\ gossip_task'.result = "Err"
            /\ gossip_data_watch' = gossip_data_watch
       /\ StakesPublishFails =>
            /\ stakes_task'.pc = "done"
            /\ stakes_task'.result = "Err"
            /\ stakes_watch' = stakes_watch
       /\ gossip_task.result = "Err" => gossip_task' = gossip_task
       /\ stakes_task.result = "Err" => stakes_task' = stakes_task]_vars

\* Both loops have ended on a failed publish, after an earlier publish of
\* the Membership Refresh Loop had succeeded.
C14_Witness ==
    /\ gossip_task.pc = "done" /\ gossip_task.result = "Err"
    /\ stakes_task.pc = "done" /\ stakes_task.result = "Err"
    /\ gossip_data_watch.last_update < now
    /\ gossip_data_watch.gossip_data /= EmptyMap

(***************************************************************************)
(* Properties of the Membership Snapshot a cycle publishes.                *)
(***************************************************************************)
\* The raw record has its three required endpoints.
HasRequired(value) ==
    value.gossip /= None /\ value.serve_repair_udp /= None /\ value.tvu_udp /= None

\* The identities of the records of a listing that convert to Ports.
NormalizedIdentities(peers) ==
    {peers[i].pubkey : i \in {j \in DOMAIN peers : TryFromContactInfo(peers[j]) /= <<>>}}

\* The send of watch_gossip succeeds: the value built from the listing
\* gossip_task.peers is published.
GossipPublishes == gossip_task.pc = "send" /\ gossip_task'.pc = "sleep"

\* watch_gossip has built a value from the listing gossip_task.peers and is
\* about to send it.
GossipBuilt == gossip_task.pc = "send"

\* C16: the step that publishes a Membership Snapshot installs a map whose
\* identities are exactly those of the records listed in that cycle that
\* converted, whatever the map published before held.
C16_MembershipReplacedWholesale ==
    [][GossipPublishes =>
          DOMAIN gossip_data_watch'.gossip_data = NormalizedIdentities(gossip_task.peers)]_vars

\* The second cycle listed no peer and has published; the full listing
\* answered before it had read the first snapshot, which had identity A.
C16_Witness ==
    /\ gossip_task.pc = "sleep"
    /\ gossip_data_watch.last_update = 10
    /\ gossip_data_watch.gossip_data = EmptyMap
    /\ handler.pc = "idle" /\ handler.route = "full"
    /\ handler.gossip.last_update = 0
    /\ "A" \in DOMAIN handler.gossip.gossip_data

\* C17: of the records a cycle lists, those lacking gossip, serve_repair or
\* turbine are absent from the snapshot published and those with all three
\* are in it, with the optional endpoints they had or lacked; the loop goes
\* on to publish and sleep whatever records it dropped.
C17_PeerNormalization ==
    /\ [](gossip_task.pc /= "done")
    /\ [][GossipPublishes =>
            LET peers == gossip_task.peers
                map   == gossip_data_watch'.gossip_data
            IN  /\ DOMAIN map = {peers[i].pubkey :
                                    i \in {j \in DOMAIN peers : HasRequired(peers[j])}}
                /\ \A k \in DOMAIN map : \E i \in DOMAIN peers :
                      /\ peers[i].pubkey = k
                      /\ HasRequired(peers[i])
                      /\ map[k].tpu_forwards_quic = peers[i].tpu_forwards_quic
                      /\ map[k].tpu_quic = peers[i].tpu_quic
                      /\ map[k].tpu_vote = peers[i].tpu_vote_udp
                      /\ map[k].tpu_vote_quic = peers[i].tpu_vote_quic
                      /\ map[k].alpenglow = peers[i].alpenglow]_vars

\* The loop was given a record without gossip endpoint before a record with
\* every endpoint, and has the second alone to publish.
C17_Witness ==
    /\ GossipBuilt
    /\ gossip_task.peers = <<PeerD, PeerF>>
    /\ DOMAIN gossip_task.value.gossip_data = {"F"}

\* The index of the last record of the listing that has identity k and
\* converts.
LastValid(peers, k) ==
    CHOOSE i \in DOMAIN peers :
        /\ peers[i].pubkey = k
        /\ HasRequired(peers[i])
        /\ \A j \in DOMAIN peers :
              (peers[j].pubkey = k /\ HasRequired(peers[j])) => j <= i

\* C18: every Membership Snapshot published holds each record under the
\* record's own identity, and for an identity listed several times in the
\* cycle the record kept is the last of them in the listing.
C18_IdentityUniqueLastWins ==
    /\ [](\A k \in DOMAIN gossip_data_watch.gossip_data :
            gossip_data_watch.gossip_data[k].pubkey = k)
    /\ [][GossipPublishes =>
            \A k \in DOMAIN gossip_data_watch'.gossip_data :
               gossip_data_watch'.gossip_data[k] =
                   TryFromContactInfo(gossip_task.peers[LastValid(gossip_task.peers, k)])[1]]_vars

\* The loop was given identity A twice with different endpoints and has the
\* endpoints listed second to publish.
C18_Witness ==
    /\ GossipBuilt
    /\ gossip_task.peers = <<PeerA2, PeerA>>
    /\ gossip_task.value.gossip_data["A"].gossip = SocketAddr(V4(1, 2, 3, 4), 8001)

(***************************************************************************)
(* Properties of the running system over time.                             *)
(***************************************************************************)
\* C19: no step of the full listing, the short listing or the health check
\* changes either cell; the cell of GossipData changes only in the send of
\* watch_gossip and the cell of StakeData only in the send of
\* stakes_refresh_loop.
C19_QueriesReadOnlySingleWriter ==
    [][/\ handler' /= handler =>
            gossip_data_watch' = gossip_data_watch /\ stakes_watch' = stakes_watch
       /\ response' /= response =>
            gossip_data_watch' = gossip_data_watch /\ stakes_watch' = stakes_watch
       /\ gossip_data_watch' /= gossip_data_watch =>
            /\ gossip_task.pc = "send" /\ gossip_task'.pc = "sleep"
            /\ gossip_data_watch' = gossip_task.value
            /\ stakes_task' = stakes_task
       /\ stakes_watch' /= stakes_watch =>
            /\ stakes_task.pc = "send" /\ stakes_task'.pc = "sleep"
            /\ stakes_watch' = stakes_task.value
            /\ gossip_task' = gossip_task]_vars

\* A health check has been answered, with a failure, after both loops had
\* published and the clock had moved on; the cells hold what was published.
C19_Witness ==
    /\ handler.pc = "idle" /\ handler.route = "health"
    /\ response.status = 500
    /\ now = 10
    /\ gossip_data_watch = GossipData(CollectPeers(<<PeerA>>, EmptyMap), 0)
    /\ stakes_watch.stake_amounts /= EmptyMap
    /\ stakes_watch.last_update = 0

\* watch_gossip has published the snapshot at the instant it built it and is
\* in the sleep that follows, the sleep's deadline not yet behind: the loop
\* is running on time.
GossipLoopOnTime ==
    /\ gossip_task.pc = "sleep"
    /\ gossip_task.wake = gossip_data_watch.last_update + GossipSleepSecs
    /\ now <= gossip_task.wake

\* C20: while the Membership Refresh Loop runs on time, between a publish and
\* the next the age of the Membership Snapshot is strictly below the
\* 10-second threshold, so a health check made then reports success.
C20_SteadyStateHealthy ==
    GossipLoopOnTime =>
        /\ Elapsed(gossip_data_watch.last_update) < HealthMaxAgeSecs
        /\ HealthResult(Elapsed(gossip_data_watch.last_update),
                        Elapsed(stakes_watch.last_update)).status = 200

(***************************************************************************)
(* The cells before the first publish (Spec).  Both cells are created at   *)
(* instant 0.                                                              *)
(***************************************************************************)
\* The step in which a loop's send installs its value in the cell.
GossipSendStep == gossip_task.pc = "send" /\ gossip_task'.pc = "sleep"

StakesSendStep == stakes_task.pc = "send" /\ stakes_task'.pc = "sleep"

\* The answer of a listing that found nothing to list.
EmptyListing ==
    IF handler.route = "full" THEN <<>> ELSE [staked |-> <<>>, unstaked |-> <<>>]

\* A listing request has been answered.
ListingAnswered == FullAnswered \/ ShortAnswered

\* C21: each cell is created holding an empty map stamped with the instant of
\* its creation and keeps that value until its own loop's send; a listing
\* that read the default Membership Snapshot is answered with status 200 and
\* an empty listing, one that read the default Stake Snapshot with status 200,
\* every stake 0 and nothing listed as staked; and a health check that reads
\* the default Membership Snapshot measures the time since the creation of
\* the cell and succeeds iff that is below 10 seconds.
C21_DefaultBeforeFirstPublish ==
    /\ gossip_data_watch = [gossip_data |-> EmptyMap, last_update |-> 0]
    /\ stakes_watch = [stake_amounts |-> EmptyMap, last_update |-> 0]
    /\ [][gossip_data_watch' /= gossip_data_watch => GossipSendStep]_vars
    /\ [][stakes_watch' /= stakes_watch => StakesSendStep]_vars
    /\ [](ListingAnswered /\ handler.gossip = GossipDataDefault(0)
            => response = [status |-> 200, body |-> EmptyListing])
    /\ [](ListingAnswered /\ handler.stakes = StakeDataDefault(0)
            => /\ response.status = 200
               /\ FullAnswered =>
                     \A i \in DOMAIN response.body : response.body[i].stake = 0
               /\ ShortAnswered => response.body.staked = <<>>)
    /\ [][(handler.pc = "idle" /\ handler'.pc = "health"
             /\ gossip_data_watch = GossipDataDefault(0))
            => handler'.gossip_age = now]_vars
    /\ [](HealthAnswered => (response.status = 200 <=> handler.gossip_age < 10))

\* Witness of C21: 9 seconds after the creation of the cells, with no
\* Membership Snapshot ever published (the loop has not reached its first
\* sleep) and the Stake Snapshot still the default, a health check succeeded.
C21_Witness ==
    /\ HealthAnswered
    /\ response.status = 200
    /\ handler.gossip_age = 9
    /\ now = 9
    /\ gossip_task.pc \in {"run", "send"}
    /\ gossip_task.wake = 0
    /\ gossip_data_watch = GossipDataDefault(0)
    /\ stakes_watch = StakeDataDefault(0)

====
